---- MODULE Spec2Model ----
(***************************************************************************)
(* Event registration backend (Express + Mongoose).                        *)
(*                                                                         *)
(* State: the Event collection, the User collection, the wall clock, the   *)
(* register requests that are suspended at an await and the answer to the  *)
(* last listing request.                                                   *)
(*                                                                         *)
(* A handler is an operator from the stored state and the request to an    *)
(* Outcome: the status it answers with and the two collections as it       *)
(* leaves them.  The actions apply the handlers to the store.              *)
(*                                                                         *)
(* Routes modelled:                                                        *)
(*   users router   (src/routes/users.js 1-44)    PUT /preferences         *)
(*   events router  (src/routes/users.js 46-575)  create, update, delete,  *)
(*                  register, cancel, admin cancel, and the listings       *)
(*                  GET /, GET /registered, GET /admin                     *)
(*   admin router   (src/unnamed/part_001 96-289) update, delete, cancel   *)
(*                                                                         *)
(* Time is counted in minutes since 00:00 UTC of day 0.  An event's date   *)
(* is the instant of its UTC midnight, its time is the pair <<h, m>> that  *)
(* the string "HH:MM" parses to.                                           *)
(***************************************************************************)
EXTENDS Integers, Sequences, FiniteSets, TLC

\* ---------------------------------------------------------------- bounds

\* Number of event ids the store hands out (ids are never reused).
MaxEvents == 1

\* Largest capacity a request body carries.
MaxCapacity == 2

\* Register requests are issued for a user while registeredEvents is shorter
\* than this (the admin router's cancel leaves the id in the list, so the
\* list can grow with every register).
MaxRegistered == 2

\* Number of register requests that can be suspended at the same time.
MaxInFlight == 2

\* ------------------------------------------------------------- constants

\* validateEvent / eventSchema: capacity is at least 1.
MinCapacity == 1

\* Char code of "[", the first character of String({...}) = "[object Object]".
ObjectStringFirstChar == 91

\* Char code of "0".
DigitZeroChar == 48

MinutesPerHour == 60

MinutesPerDay == 24 * MinutesPerHour

Users == {"u1", "u2"}

\* Two of the six values of eventSchema.type's enum.
Types == {"Academic", "Social"}

EventIds == 1 .. MaxEvents

\* 00:00 UTC of day 0 and of day 1.
Dates == {0, MinutesPerDay}

\* "10:00" and "23:30".
Times == {<<10, 0>>, <<23, 30>>}

\* Capacities a request body carries; 0 fails validation.
Capacities == 0 .. MaxCapacity

\* Instants the clock is read at: day 0 23:00 and day 1 00:00.
NowSamples == {23 * MinutesPerHour, MinutesPerDay}

\* events : the Event collection, a function from the ids of the stored
\*          events to their documents
\* users  : the User collection
\* nextId : the id the next created event gets
\* now    : the wall clock, new Date()
\* flight : the register requests suspended at an await
\* reply  : the answer to the last listing request
VARIABLES events, users, nextId, now, flight, reply

vars == <<events, users, nextId, now, flight, reply>>

\* ------------------------------------------------------- time resolution

\* Date.toISOString().split('T')[0]: the UTC calendar day of an instant.
UTCDay(t) == t \div MinutesPerDay

\* new Date(event.date); setUTCHours(hours, minutes, 0, 0).
EventInstant(event) ==
    UTCDay(event.date) * MinutesPerDay + event.time[1] * MinutesPerHour + event.time[2]

\* IsUpcoming with >= for >: an event that starts at t counts as upcoming.
IsUpcomingOrStarting(event, t) == EventInstant(event) >= t

\* eventDateTime > now.
IsUpcoming(event, t) == EventInstant(event) > t

\* First character of the "HH:MM" / "H:MM" string of a time.
TimeFirstChar(time) ==
    DigitZeroChar + (IF time[1] >= 10 THEN time[1] \div 10 ELSE time[1])

\* event.time < { $dateToString: ... }: the object converts to the string
\* "[object Object]" and the two strings are compared by code unit.
TimeLessThanObject(time) == TimeFirstChar(time) < ObjectStringFirstChar

\* The "has already started" test of the events router's cancel and delete.
HasStarted(event, t) ==
    \/ event.date < t
    \/ /\ UTCDay(event.date) = UTCDay(t)
       /\ TimeLessThanObject(event.time)

\* ------------------------------------------------------- capacity ledger

\* eventSchema.virtual('isFull').
IsFull(event) == Len(event.registrations) >= event.capacity

Max(a, b) == IF a >= b THEN a ELSE b

\* eventSchema.virtual('availableSpots').
AvailableSpots(event) == Max(0, event.capacity - Len(event.registrations))

\* ------------------------------------------------------------ documents

\* An element of event.registrations (registeredAt is not modelled).
Registration(u) == [user |-> u]

\* event.registrations.findIndex(reg => reg.user.toString() === u); 0 for -1.
FindIndex(regs, u) ==
    IF \E i \in 1 .. Len(regs) : regs[i].user = u
    THEN CHOOSE i \in 1 .. Len(regs) :
            /\ regs[i].user = u
            /\ \A j \in 1 .. (i - 1) : regs[j].user # u
    ELSE 0

\* event.registrations.some(reg => reg.user.toString() === u).
IsRegistered(event, u) ==
    \E i \in 1 .. Len(event.registrations) : event.registrations[i].user = u

\* Array.includes / $in: x occurs in the sequence.
InList(seq, x) == \E i \in 1 .. Len(seq) : seq[i] = x

\* registrations.splice(i, 1).
Splice(seq, i) == SubSeq(seq, 1, i - 1) \o SubSeq(seq, i + 1, Len(seq))

\* $pull: every element equal to x is removed.
Pull(seq, x) == SelectSeq(seq, LAMBDA y : y # x)

\* Object.assign(event, body): the body's fields overwrite the event's.
Assign(event, body) ==
    [k \in DOMAIN event |-> IF k \in DOMAIN body THEN body[k] ELSE event[k]]

\* The collection without document e.
Remove(coll, e) == [x \in (DOMAIN coll) \ {e} |-> coll[x]]

\* The collection with document e inserted.
Insert(coll, e, doc) ==
    [x \in (DOMAIN coll) \cup {e} |-> IF x = e THEN doc ELSE coll[x]]

\* event.registrations.push(...); event.save(): Mongoose sends the push as
\* a $push, which appends to the stored array.
SaveRegistration(evs, e, u) ==
    [evs EXCEPT ![e].registrations = Append(@, Registration(u))]

\* user.registeredEvents.push(event._id); user.save().
SaveRegisteredEvent(usrs, u, e) ==
    [usrs EXCEPT ![u].registeredEvents = Append(@, e)]

\* What a handler does: the status it answers with and the two collections
\* as it leaves them.
Outcome(status, evs, usrs) == [status |-> status, events |-> evs, users |-> usrs]

\* ------------------------------------------------------- request bodies

\* The values of a body's registrations field: the empty array.
BodyRegistrations == {<<>>}

\* Bodies that carry every field validateEvent requires, with or without
\* a registrations field, which validateEvent neither requires nor removes.
FullBodies ==
    {[date |-> d, time |-> t, type |-> ty, capacity |-> c] :
        d \in Dates, t \in Times, ty \in Types, c \in Capacities}
    \cup
    {[date |-> d, time |-> t, type |-> ty, capacity |-> c, registrations |-> r] :
        d \in Dates, t \in Times, ty \in Types, c \in Capacities, r \in BodyRegistrations}

\* Bodies of the admin router's update, which validates nothing before
\* Object.assign: here the bodies that carry one field.
PartialBodies ==
    {[k \in S |-> b[k]] :
        b \in {x \in FullBodies : "registrations" \in DOMAIN x},
        S \in {{"date"}, {"time"}, {"type"}, {"capacity"}, {"registrations"}}}

\* ------------------------------------------------------------- handlers

\* RegisterCheck without its "already registered" test.
RegisterCheckNoDuplicateTest(event, user, u) ==
    IF event.type \notin user.preferences THEN "PreferenceMismatch"
    ELSE IF Len(event.registrations) >= event.capacity THEN "EventFull"
    ELSE "OK"

\* RegisterCheck with the "already registered" test made before the
\* preference test.
RegisterCheckDuplicateTestFirst(event, user, u) ==
    IF IsRegistered(event, u) THEN "AlreadyRegistered"
    ELSE IF event.type \notin user.preferences THEN "PreferenceMismatch"
    ELSE IF Len(event.registrations) >= event.capacity THEN "EventFull"
    ELSE "OK"

\* RegisterCheck with the cancel handler's "has already started" test in
\* front.
RegisterCheckWithTimeTest(event, user, u) ==
    IF HasStarted(event, now) THEN "EventAlreadyStarted"
    ELSE IF event.type \notin user.preferences THEN "PreferenceMismatch"
    ELSE IF IsRegistered(event, u) THEN "AlreadyRegistered"
    ELSE IF Len(event.registrations) >= event.capacity THEN "EventFull"
    ELSE "OK"

\* The checks of POST /api/events/:id/register on the documents it read,
\* in the order the handler makes them.
RegisterCheck(event, user, u) ==
    IF event.type \notin user.preferences THEN "PreferenceMismatch"
    ELSE IF IsRegistered(event, u) THEN "AlreadyRegistered"
    ELSE IF Len(event.registrations) >= event.capacity THEN "EventFull"
    ELSE "OK"

\* POST /api/events/:id/register.
RegisterHandler(u, e) ==
    IF e \notin DOMAIN events
    THEN Outcome("NotFound", events, users)
    ELSE IF RegisterCheck(events[e], users[u], u) # "OK"
    THEN Outcome(RegisterCheck(events[e], users[u], u), events, users)
    ELSE Outcome("OK", SaveRegistration(events, e, u), SaveRegisteredEvent(users, u, e))

\* CancelHandler without its test of findIndex's -1: splice(-1, 1) removes
\* the last registration.
CancelHandlerNoIndexTest(u, e) ==
    IF e \notin DOMAIN events
    THEN Outcome("NotFound", events, users)
    ELSE IF HasStarted(events[e], now)
    THEN Outcome("EventAlreadyStarted", events, users)
    ELSE Outcome("OK",
                 [events EXCEPT ![e].registrations =
                     IF FindIndex(@, u) = 0 THEN Splice(@, Len(@)) ELSE Splice(@, FindIndex(@, u))],
                 [users EXCEPT ![u].registeredEvents = Pull(@, e)])

\* DELETE /api/events/:id/register.
CancelHandler(u, e) ==
    IF e \notin DOMAIN events
    THEN Outcome("NotFound", events, users)
    ELSE IF HasStarted(events[e], now)
    THEN Outcome("EventAlreadyStarted", events, users)
    ELSE IF FindIndex(events[e].registrations, u) = 0
    THEN Outcome("NotRegistered", events, users)
    ELSE Outcome("OK",
                 [events EXCEPT ![e].registrations = Splice(@, FindIndex(@, u))],
                 [users EXCEPT ![u].registeredEvents = Pull(@, e)])

\* DELETE /api/events/:eventId/registrations/:userId.
AdminCancelHandler(u, e) ==
    IF e \notin DOMAIN events
    THEN Outcome("NotFound", events, users)
    ELSE IF HasStarted(events[e], now)
    THEN Outcome("EventAlreadyStarted", events, users)
    ELSE IF FindIndex(events[e].registrations, u) = 0
    THEN Outcome("NotRegistered", events, users)
    ELSE Outcome("OK",
                 [events EXCEPT ![e].registrations = Splice(@, FindIndex(@, u))],
                 [users EXCEPT ![u].registeredEvents = Pull(@, e)])

\* DELETE /api/admin/events/:eventId/registrations/:userId: no time check,
\* and the user's registeredEvents is not written (availableSeats is no
\* path of the schema and is not stored).
AdminRouterCancelHandler(u, e) ==
    IF e \notin DOMAIN events
    THEN Outcome("NotFound", events, users)
    ELSE IF FindIndex(events[e].registrations, u) = 0
    THEN Outcome("NotRegistered", events, users)
    ELSE Outcome("OK",
                 [events EXCEPT ![e].registrations = Splice(@, FindIndex(@, u))],
                 users)

\* POST /api/events/admin.
CreateHandler(body) ==
    IF body.capacity < MinCapacity
    THEN Outcome("ValidationFailed", events, users)
    ELSE Outcome("OK",
                 Insert(events, nextId,
                        [date |-> body.date, time |-> body.time, type |-> body.type,
                         capacity |-> body.capacity, registrations |-> <<>>]),
                 users)

\* UpdateHandler with Object.assign and save made before the capacity test.
UpdateHandlerSaveBeforeTest(e, body) ==
    IF body.capacity < MinCapacity
    THEN Outcome("ValidationFailed", events, users)
    ELSE IF e \notin DOMAIN events
    THEN Outcome("NotFound", events, users)
    ELSE IF body.capacity < Len(events[e].registrations)
    THEN Outcome("CapacityInvariantViolated", [events EXCEPT ![e] = Assign(@, body)], users)
    ELSE Outcome("OK", [events EXCEPT ![e] = Assign(@, body)], users)

\* PUT /api/events/admin/:id.
UpdateHandler(e, body) ==
    IF body.capacity < MinCapacity
    THEN Outcome("ValidationFailed", events, users)
    ELSE IF e \notin DOMAIN events
    THEN Outcome("NotFound", events, users)
    ELSE IF body.capacity < Len(events[e].registrations)
    THEN Outcome("CapacityInvariantViolated", events, users)
    ELSE Outcome("OK", [events EXCEPT ![e] = Assign(@, body)], users)

\* PUT /api/admin/events/:id: Object.assign and save; the only check is the
\* schema's (capacity min 1), made by save().
AdminRouterUpdateHandler(e, body) ==
    IF e \notin DOMAIN events
    THEN Outcome("NotFound", events, users)
    ELSE IF Assign(events[e], body).capacity < MinCapacity
    THEN Outcome("ValidationFailed", events, users)
    ELSE Outcome("OK", [events EXCEPT ![e] = Assign(@, body)], users)

\* DELETE /api/events/admin/:id.
DeleteHandler(e) ==
    IF e \notin DOMAIN events
    THEN Outcome("NotFound", events, users)
    ELSE IF HasStarted(events[e], now)
    THEN Outcome("EventAlreadyStarted", events, users)
    ELSE Outcome("OK", Remove(events, e), users)

\* DELETE /api/admin/events/:id: findByIdAndDelete, no time check.
AdminRouterDeleteHandler(e) ==
    IF e \notin DOMAIN events
    THEN Outcome("NotFound", events, users)
    ELSE Outcome("OK", Remove(events, e), users)

\* PUT /api/users/preferences.
PreferencesHandler(u, prefs) ==
    Outcome("OK", events, [users EXCEPT ![u].preferences = prefs])

\* -------------------------------------------------------------- actions

\* A request handled from its first line to its response with no other
\* request in between.
Apply(out) ==
    /\ events' = out.events
    /\ users' = out.users
    /\ UNCHANGED <<now, flight, reply>>

\* No listing request has been answered.
NoReply == [status |-> "none", route |-> "none", events |-> <<>>, total |-> 0]

\* A slot with no request in it.
Idle == [pc |-> "idle", u |-> "u1", e |-> 1, event |-> <<>>]

Init ==
    /\ events = <<>>
    /\ users = [u \in Users |-> [preferences |-> {}, registeredEvents |-> <<>>]]
    /\ nextId = 1
    /\ now = 23 * MinutesPerHour
    /\ flight = [s \in 1 .. MaxInFlight |-> Idle]
    /\ reply = NoReply

UpdatePreferences ==
    \E u \in Users, prefs \in SUBSET Types :
        /\ Apply(PreferencesHandler(u, prefs))
        /\ UNCHANGED nextId

CreateEvent ==
    \E body \in FullBodies :
        /\ nextId <= MaxEvents
        /\ Apply(CreateHandler(body))
        /\ nextId' = IF CreateHandler(body).status = "OK" THEN nextId + 1 ELSE nextId

UpdateEvent ==
    \E e \in EventIds, body \in FullBodies :
        /\ Apply(UpdateHandler(e, body))
        /\ UNCHANGED nextId

AdminRouterUpdateEvent ==
    \E e \in EventIds, body \in PartialBodies :
        /\ Apply(AdminRouterUpdateHandler(e, body))
        /\ UNCHANGED nextId

DeleteEvent ==
    \E e \in EventIds :
        /\ Apply(DeleteHandler(e))
        /\ UNCHANGED nextId

AdminRouterDeleteEvent ==
    \E e \in EventIds :
        /\ Apply(AdminRouterDeleteHandler(e))
        /\ UNCHANGED nextId

Register ==
    \E u \in Users, e \in EventIds :
        /\ Len(users[u].registeredEvents) < MaxRegistered
        /\ Apply(RegisterHandler(u, e))
        /\ UNCHANGED nextId

Cancel ==
    \E u \in Users, e \in EventIds :
        /\ Apply(CancelHandler(u, e))
        /\ UNCHANGED nextId

AdminCancel ==
    \E u \in Users, e \in EventIds :
        /\ Apply(AdminCancelHandler(u, e))
        /\ UNCHANGED nextId

AdminRouterCancel ==
    \E u \in Users, e \in EventIds :
        /\ Apply(AdminRouterCancelHandler(u, e))
        /\ UNCHANGED nextId

\* Time passes.
Tick ==
    /\ \E t \in NowSamples : t > now /\ now' = t
    /\ UNCHANGED <<events, users, nextId, flight, reply>>

Next ==
    \/ UpdatePreferences
    \/ CreateEvent
    \/ UpdateEvent
    \/ AdminRouterUpdateEvent
    \/ DeleteEvent
    \/ AdminRouterDeleteEvent
    \/ Register
    \/ Cancel
    \/ AdminCancel
    \/ AdminRouterCancel
    \/ Tick

\* Requests are handled one at a time.
Spec == Init /\ [][Next]_vars

\* ------------------------------------------- the store fails on a write

\* POST /api/events/:id/register when user.save() throws: event.save() has
\* been awaited before it, and the catch block answers 500.
RegisterHandlerUserSaveFails(u, e) ==
    IF e \notin DOMAIN events
    THEN Outcome("NotFound", events, users)
    ELSE IF RegisterCheck(events[e], users[u], u) # "OK"
    THEN Outcome(RegisterCheck(events[e], users[u], u), events, users)
    ELSE Outcome("ServerError", SaveRegistration(events, e, u), users)

\* DELETE /api/events/:id/register when User.findByIdAndUpdate throws:
\* event.save() has been awaited before it, and the catch block answers 500.
CancelHandlerUserUpdateFails(u, e) ==
    IF e \notin DOMAIN events
    THEN Outcome("NotFound", events, users)
    ELSE IF HasStarted(events[e], now)
    THEN Outcome("EventAlreadyStarted", events, users)
    ELSE IF FindIndex(events[e].registrations, u) = 0
    THEN Outcome("NotRegistered", events, users)
    ELSE Outcome("ServerError",
                 [events EXCEPT ![e].registrations = Splice(@, FindIndex(@, u))],
                 users)

RegisterUserSaveFails ==
    \E u \in Users, e \in EventIds :
        /\ Len(users[u].registeredEvents) < MaxRegistered
        /\ Apply(RegisterHandlerUserSaveFails(u, e))
        /\ UNCHANGED nextId

CancelUserUpdateFails ==
    \E u \in Users, e \in EventIds :
        /\ Apply(CancelHandlerUserUpdateFails(u, e))
        /\ UNCHANGED nextId

NextFault ==
    \/ Next
    \/ RegisterUserSaveFails
    \/ CancelUserUpdateFails

\* Requests are handled one at a time, and the store may fail on the second
\* write of a register or of a cancel.
SpecFault == Init /\ [][NextFault]_vars

\* ------------------------------------- register requests that interleave

\* The handler of POST /:id/register gives way to other requests at each
\* await: Event.findById, User.findById, event.save(), user.save().

\* The first idle slot takes the next request.
FreeSlot(s) ==
    /\ flight[s].pc = "idle"
    /\ \A r \in 1 .. (s - 1) : flight[r].pc # "idle"

\* await Event.findById(req.params.id); 404 when there is none.
RegFindEvent ==
    \E s \in DOMAIN flight, u \in Users, e \in EventIds :
        /\ FreeSlot(s)
        /\ Len(users[u].registeredEvents) < MaxRegistered
        /\ flight' = IF e \in DOMAIN events
                     THEN [flight EXCEPT ![s] =
                              [pc |-> "findUser", u |-> u, e |-> e, event |-> <<events[e]>>]]
                     ELSE flight
        /\ UNCHANGED <<events, users, nextId, now, reply>>

\* await User.findById(req.user.id), then the checks on the two documents
\* read and the push into the in-memory event.
RegFindUser ==
    \E s \in DOMAIN flight :
        /\ flight[s].pc = "findUser"
        /\ flight' = IF RegisterCheck(flight[s].event[1], users[flight[s].u], flight[s].u) = "OK"
                     THEN [flight EXCEPT ![s].pc = "saveEvent"]
                     ELSE [flight EXCEPT ![s] = Idle]
        /\ UNCHANGED <<events, users, nextId, now, reply>>

\* await event.save(); the save of a document that is no longer stored
\* throws and the handler answers 500.
RegSaveEvent ==
    \E s \in DOMAIN flight :
        /\ flight[s].pc = "saveEvent"
        /\ IF flight[s].e \in DOMAIN events
           THEN /\ events' = SaveRegistration(events, flight[s].e, flight[s].u)
                /\ flight' = [flight EXCEPT ![s].pc = "saveUser"]
           ELSE /\ events' = events
                /\ flight' = [flight EXCEPT ![s] = Idle]
        /\ UNCHANGED <<users, nextId, now, reply>>

\* user.registeredEvents.push(event._id); await user.save(); res.json.
RegSaveUser ==
    \E s \in DOMAIN flight :
        /\ flight[s].pc = "saveUser"
        /\ users' = SaveRegisteredEvent(users, flight[s].u, flight[s].e)
        /\ flight' = [flight EXCEPT ![s] = Idle]
        /\ UNCHANGED <<events, nextId, now, reply>>

NextConc ==
    \/ UpdatePreferences
    \/ CreateEvent
    \/ RegFindEvent
    \/ RegFindUser
    \/ RegSaveEvent
    \/ RegSaveUser

\* Register requests interleave at their awaits.
SpecConc == Init /\ [][NextConc]_vars

\* ------------------------------------------------------------- listings

\* Number of events in the stores the listings are read from.
MaxListed == 2

\* new Date('2024-12-14T04:13:12Z'), the "now" of GET /api/events: 04:13 of
\* day 1 (event instants are whole minutes, so the 12 seconds decide no
\* comparison).
HardCodedNow == MinutesPerDay + 4 * MinutesPerHour + 13

\* Char code of ":".
ColonChar == 58

\* Char code of the decimal digit d.
DigitChar(d) == DigitZeroChar + d

\* The code units of the stored time string, "HH:MM" or "H:MM".
TimeChars(time) ==
    (IF time[1] >= 10
     THEN <<DigitChar(time[1] \div 10), DigitChar(time[1] % 10)>>
     ELSE <<DigitChar(time[1])>>)
    \o <<ColonChar, DigitChar(time[2] \div 10), DigitChar(time[2] % 10)>>

\* { $dateToString: { format: '%H:%M', date: now } }: zero-padded, UTC.
ClockChars(t) ==
    <<DigitChar(((t % MinutesPerDay) \div MinutesPerHour) \div 10),
      DigitChar(((t % MinutesPerDay) \div MinutesPerHour) % 10),
      ColonChar,
      DigitChar((t % MinutesPerHour) \div 10),
      DigitChar((t % MinutesPerHour) % 10)>>

\* MongoDB's order of two strings: code unit by code unit, a proper prefix
\* first.
StringLess(a, b) ==
    \E i \in 1 .. Len(b) :
        /\ \A j \in 1 .. (i - 1) : j <= Len(a) /\ a[j] = b[j]
        /\ i > Len(a) \/ a[i] < b[i]

\* The elements of a finite set of ids in ascending order: the order in
\* which find() returns documents that no sort orders.
Ascending(S) ==
    [k \in 1 .. Cardinality(S) |->
        CHOOSE x \in S : Cardinality({y \in S : y < x}) = k - 1]

\* A stable sort of seq by a strict order, given as the set of the pairs
\* <<a, b>> with a before b.
SortedBy(seq, before) ==
    LET Rank(i) ==
            1 + Cardinality({j \in 1 .. Len(seq) :
                                \/ <<seq[j], seq[i]>> \in before
                                \/ <<seq[i], seq[j]>> \notin before /\ j < i})
    IN [k \in 1 .. Len(seq) |-> seq[CHOOSE i \in 1 .. Len(seq) : Rank(i) = k]]

\* upcomingEvents.sort((a, b) => aDateTime - bDateTime).
InstantBefore ==
    {p \in (DOMAIN events) \X (DOMAIN events) :
        EventInstant(events[p[1]]) < EventInstant(events[p[2]])}

\* .sort({ date: 1, time: 1 }): by date, then by the time string.
DateTimeBefore ==
    {p \in (DOMAIN events) \X (DOMAIN events) :
        \/ events[p[1]].date < events[p[2]].date
        \/ /\ events[p[1]].date = events[p[2]].date
           /\ StringLess(TimeChars(events[p[1]].time), TimeChars(events[p[2]].time))}

\* .sort({ date: -1, time: -1 }).
DateTimeAfter == {<<p[2], p[1]>> : p \in DateTimeBefore}

\* Array.slice(startIndex, endIndex).
Slice(seq, startIndex, endIndex) ==
    SubSeq(seq, startIndex + 1, IF endIndex < Len(seq) THEN endIndex ELSE Len(seq))

\* The answer to a listing request: the ids of the events it returns, in
\* order, and pagination.total (the length of the array where the answer is
\* an array).
Listing(route, ids, total) ==
    [status |-> "OK", route |-> route, events |-> ids, total |-> total]

\* GET /api/events: the events of the types asked for (all when no type is
\* given) whose instant is after the hard-coded now, by instant, one page.
ListUpcomingHandler(types, page, limit) ==
    LET allEvents ==
            Ascending({e \in DOMAIN events : types = {} \/ events[e].type \in types})
        upcomingEvents ==
            SortedBy(SelectSeq(allEvents, LAMBDA e : IsUpcoming(events[e], HardCodedNow)),
                     InstantBefore)
    IN Listing("upcoming",
               Slice(upcomingEvents, (page - 1) * limit, (page - 1) * limit + limit),
               Len(upcomingEvents))

\* GET /api/events/registered: the events whose id is in the user's
\* registeredEvents; the type filter is cut down to the user's preferences
\* and dropped when nothing is left of it.
ListRegisteredHandler(u, types) ==
    IF u \notin DOMAIN users
    THEN [status |-> "NotFound", route |-> "registered", events |-> <<>>, total |-> 0]
    ELSE
    LET allowedTypes == types \cap users[u].preferences
        found ==
            {e \in DOMAIN events :
                /\ InList(users[u].registeredEvents, e)
                /\ allowedTypes # {} => events[e].type \in allowedTypes}
    IN Listing("registered", SortedBy(Ascending(found), DateTimeBefore), Cardinality(found))

\* The value of '$eventType' in a document: the schema has no such path, so
\* the field is missing and $group puts the document under null.
EventTypeField(event) ==
    IF "eventType" \in DOMAIN event THEN event.eventType ELSE "null"

\* $group: { _id: '$eventType', count: { $sum: 1 } }: the count of every
\* key that occurs.
EventsByType ==
    [k \in {EventTypeField(events[e]) : e \in DOMAIN events} |->
        Cardinality({e \in DOMAIN events : EventTypeField(events[e]) = k})]

\* DashboardHandler answering 500 when the grouping has no group.
DashboardHandlerFirstGroup ==
    IF DOMAIN EventsByType = {}
    THEN [status |-> "ServerError", route |-> "dashboard", totalUsers |-> 0,
          totalEvents |-> 0, upcomingEvents |-> 0, eventsByType |-> <<>>]
    ELSE [status |-> "OK",
          route |-> "dashboard",
          totalUsers |-> Cardinality(DOMAIN users),
          totalEvents |-> Cardinality(DOMAIN events),
          upcomingEvents |-> Cardinality({e \in DOMAIN events : events[e].date >= now}),
          eventsByType |-> EventsByType]

\* GET /api/admin/dashboard: the users of role 'user' (every user of the
\* model is one), the events, the events whose date is now or later, and
\* the grouping.
DashboardHandler ==
    [status |-> "OK",
     route |-> "dashboard",
     totalUsers |-> Cardinality(DOMAIN users),
     totalEvents |-> Cardinality(DOMAIN events),
     upcomingEvents |-> Cardinality({e \in DOMAIN events : events[e].date >= now}),
     eventsByType |-> EventsByType]

\* The $expr of status=upcoming in GET /api/events/admin.
AdminUpcomingQuery(event, t) ==
    \/ event.date > t
    \/ /\ UTCDay(event.date) = UTCDay(t)
       /\ StringLess(ClockChars(t), TimeChars(event.time))

\* The $expr of status=past in GET /api/events/admin.
AdminPastQuery(event, t) ==
    \/ event.date < t
    \/ /\ UTCDay(event.date) = UTCDay(t)
       /\ StringLess(TimeChars(event.time), ClockChars(t))

\* GET /api/events/admin: any other status selects every event.
ListAdminHandler(status) ==
    LET found ==
            {e \in DOMAIN events :
                /\ status = "upcoming" => AdminUpcomingQuery(events[e], now)
                /\ status = "past" => AdminPastQuery(events[e], now)}
    IN Listing(status,
               IF status = "past"
               THEN SortedBy(Ascending(found), DateTimeAfter)
               ELSE SortedBy(Ascending(found), DateTimeBefore),
               Cardinality(found))

\* Instants the clock is read at when a listing is asked for: before and
\* after the hard-coded now.
ListNows == NowSamples \cup {MinutesPerDay + 23 * MinutesPerHour}

\* The users registered for an event of the stores read from, in the order
\* they registered.
ListRegistrations == {<<>>, <<Registration("u1")>>, <<Registration("u1"), Registration("u2")>>}

\* The events of the stores read from: created with any date, time and type
\* and room for every user, then registered for.
ListEvents ==
    {[date |-> d, time |-> t, type |-> ty, capacity |-> MaxCapacity, registrations |-> r] :
        d \in Dates, t \in Times, ty \in Types, r \in ListRegistrations}

\* The ids of the events a user is registered for, in ascending order.
RegisteredIn(evs, u) == Ascending({e \in DOMAIN evs : IsRegistered(evs[e], u)})

\* The stores the listings are read from: up to MaxListed events, every
\* user's registeredEvents in step with the registrations, and preferences
\* that may have changed since the user registered; or the store of a fresh
\* database, with no event and no user.
InitList ==
    /\ \E n \in 0 .. MaxListed : events \in [1 .. n -> ListEvents]
    /\ \/ \E prefs \in SUBSET Types :
             users = [u \in Users |->
                         [preferences |-> IF u = "u1" THEN prefs ELSE Types,
                          registeredEvents |-> RegisteredIn(events, u)]]
       \/ /\ events = <<>>
          /\ users = <<>>
    /\ nextId = Cardinality(DOMAIN events) + 1
    /\ now \in ListNows
    /\ flight = [s \in 1 .. MaxInFlight |-> Idle]
    /\ reply = NoReply

ListPages == 1 .. 2

ListLimits == {1, MaxListed}

\* A listing request is answered; nothing is written.
ListUpcomingEvents ==
    \E types \in SUBSET Types, page \in ListPages, limit \in ListLimits :
        /\ reply' = ListUpcomingHandler(types, page, limit)
        /\ UNCHANGED <<events, users, nextId, now, flight>>

ListRegisteredEvents ==
    \E u \in Users, types \in SUBSET Types :
        /\ reply' = ListRegisteredHandler(u, types)
        /\ UNCHANGED <<events, users, nextId, now, flight>>

ListAdminEvents ==
    \E status \in {"upcoming", "past", "all"} :
        /\ reply' = ListAdminHandler(status)
        /\ UNCHANGED <<events, users, nextId, now, flight>>

Dashboard ==
    /\ reply' = DashboardHandler
    /\ UNCHANGED <<events, users, nextId, now, flight>>

NextList ==
    \/ ListUpcomingEvents
    \/ ListRegisteredEvents
    \/ ListAdminEvents
    \/ Dashboard

\* Listing requests on a store that is not written meanwhile.
SpecList == InitList /\ [][NextList]_vars

\* --------------------------------------------------------------- claims

\* The number of registrations of user u in the event.
RegistrationCount(event, u) ==
    Cardinality({i \in 1 .. Len(event.registrations) : event.registrations[i].user = u})

\* The handler failed and wrote nothing.
Rejects(out, status) == out = Outcome(status, events, users)

\* C1: in every state reached by completed mutations, every stored event
\* has at most capacity registrations.  Fails: PUT /api/admin/events/:id
\* stores a capacity below the number of registrations.
C1_RegistrationsWithinCapacity ==
    \A e \in DOMAIN events : Len(events[e].registrations) <= events[e].capacity

\* C2: an event never holds two registrations of the same user, also when
\* two register requests of that user interleave.  Fails under SpecConc:
\* both requests read the event before either saves.
C2_OneRegistrationPerUser ==
    \A e \in DOMAIN events : \A u \in Users : RegistrationCount(events[e], u) <= 1

\* C3: between requests, an existing event's id is in a user's
\* registeredEvents exactly when the event holds a registration of the user.
\* Fails: the admin router's cancel removes the registration only.
C3_RegisteredEventsMirrorRegistrations ==
    \A u \in Users : \A e \in DOMAIN events :
        InList(users[u].registeredEvents, e) <=> IsRegistered(events[e], u)

\* C4: interleaved register requests of different users never leave an
\* event with more registrations than its capacity.  Fails under SpecConc:
\* the capacity is tested on the document read, not at the write.
C4_NoOverbookingByDifferentUsers ==
    \A e \in DOMAIN events :
        (\A u \in Users : RegistrationCount(events[e], u) <= 1)
            => Len(events[e].registrations) <= events[e].capacity

DayReached(event) == UTCDay(event.date) <= UTCDay(now)

ClaimedRegisterStatus(u, e) ==
    IF IsRegistered(events[e], u) THEN "AlreadyRegistered"
    ELSE IF events[e].type \notin users[u].preferences THEN "PreferenceMismatch"
    ELSE IF IsFull(events[e]) THEN "EventFull"
    ELSE "OK"

\* The answer the amended order gives: (b) type preferred, (a) not
\* registered, (d) not full; (c) is not tested.
AmendedRegisterStatus(u, e) ==
    IF events[e].type \notin users[u].preferences THEN "PreferenceMismatch"
    ELSE IF IsRegistered(events[e], u) THEN "AlreadyRegistered"
    ELSE IF IsFull(events[e]) THEN "EventFull"
    ELSE "OK"

BusinessFailures ==
    {"NotFound", "PreferenceMismatch", "AlreadyRegistered", "EventFull",
     "NotRegistered", "EventAlreadyStarted", "CapacityInvariantViolated"}

\* A handler that answers with a business failure has written nothing.
FailsClean(out) ==
    out.status \in BusinessFailures => (out.events = events /\ out.users = users)

\* C8: whatever request arrives in a reachable state, a handler that ends
\* with a business-rule failure leaves every event and every user as stored.
C8_FailuresWriteNothing ==
    /\ \A u \in Users : \A e \in EventIds :
          /\ FailsClean(RegisterHandler(u, e))
          /\ FailsClean(CancelHandler(u, e))
          /\ FailsClean(AdminCancelHandler(u, e))
          /\ FailsClean(AdminRouterCancelHandler(u, e))
    /\ \A e \in EventIds :
          /\ FailsClean(DeleteHandler(e))
          /\ FailsClean(AdminRouterDeleteHandler(e))
          /\ \A body \in FullBodies : FailsClean(UpdateHandler(e, body))
          /\ \A body \in PartialBodies : FailsClean(AdminRouterUpdateHandler(e, body))

\* C8's case: an event that has started and holds both users, where a
\* register fails with AlreadyRegistered, a cancel with EventAlreadyStarted
\* and an update to a smaller capacity with CapacityInvariantViolated.
C8_Witness ==
    \E e \in DOMAIN events :
        /\ \E u \in Users : RegisterHandler(u, e).status = "AlreadyRegistered"
        /\ \E u \in Users : CancelHandler(u, e).status = "EventAlreadyStarted"
        /\ \E body \in FullBodies : UpdateHandler(e, body).status = "CapacityInvariantViolated"

\* C9: a cancel by a registered user of an event whose instant is after now
\* succeeds, removes the user's registration and the id from the user's
\* registeredEvents and keeps the other registrations.  Fails for an event
\* later on the current UTC day, which the handler takes for started.
C9_UpcomingCancelSucceeds ==
    \A u \in Users : \A e \in DOMAIN events :
        (IsUpcoming(events[e], now) /\ IsRegistered(events[e], u)) =>
            /\ CancelHandler(u, e).status = "OK"
            /\ ~IsRegistered(CancelHandler(u, e).events[e], u)
            /\ ~InList(CancelHandler(u, e).users[u].registeredEvents, e)
            /\ \A v \in Users \ {u} :
                  IsRegistered(events[e], v) => IsRegistered(CancelHandler(u, e).events[e], v)

\* C10: a cancel of a registration in an event whose instant is not after
\* now is answered EventAlreadyStarted on every cancel route and writes
\* nothing.  Fails on the admin router's route, which has no time test.
C10_StartedCancelRejected ==
    \A u \in Users : \A e \in DOMAIN events :
        (~IsUpcoming(events[e], now) /\ IsRegistered(events[e], u)) =>
            /\ Rejects(CancelHandler(u, e), "EventAlreadyStarted")
            /\ Rejects(AdminCancelHandler(u, e), "EventAlreadyStarted")
            /\ Rejects(AdminRouterCancelHandler(u, e), "EventAlreadyStarted")

\* C11: on each of the two admin cancel routes, a cancel of user u's
\* registration in event e answers as the user's own cancel does and leaves
\* the same events and users.  Fails on the admin router's route, which
\* tests no time and does not write the user.
C11_AdminCancelSameAsUserCancel ==
    \A u \in Users : \A e \in DOMAIN events :
        IsRegistered(events[e], u) =>
            /\ AdminCancelHandler(u, e) = CancelHandler(u, e)
            /\ AdminRouterCancelHandler(u, e) = CancelHandler(u, e)

\* C12: on each of the two update routes, an update whose (valid) capacity
\* is below the event's number of registrations is answered
\* CapacityInvariantViolated and leaves the event as stored.  Fails on the
\* admin router's route, which saves the body.
C12_SmallerCapacityRejected ==
    \A e \in DOMAIN events :
        /\ \A body \in FullBodies :
              (body.capacity >= MinCapacity /\ body.capacity < Len(events[e].registrations))
                  => Rejects(UpdateHandler(e, body), "CapacityInvariantViolated")
        /\ \A body \in PartialBodies :
              /\ "capacity" \in DOMAIN body
              /\ body.capacity >= MinCapacity
              /\ body.capacity < Len(events[e].registrations)
              => Rejects(AdminRouterUpdateHandler(e, body), "CapacityInvariantViolated")

\* C13: on each of the two delete routes, the delete of an event whose
\* instant is not after now is answered EventAlreadyStarted and the event
\* stays stored as it is.  Fails on the admin router's route, which has no
\* time test.
C13_StartedDeleteRejected ==
    \A e \in DOMAIN events :
        ~IsUpcoming(events[e], now) =>
            /\ Rejects(DeleteHandler(e), "EventAlreadyStarted")
            /\ Rejects(AdminRouterDeleteHandler(e), "EventAlreadyStarted")

\* C14: the delete of a stored event whose instant is after now succeeds
\* and the event is no longer stored.  Fails on the events router's route
\* for an event later on the current UTC day, which it takes for started.
C14_UpcomingDeleteSucceeds ==
    \A e \in DOMAIN events :
        IsUpcoming(events[e], now) =>
            /\ DeleteHandler(e).status = "OK"
            /\ e \notin DOMAIN DeleteHandler(e).events
            /\ AdminRouterDeleteHandler(e).status = "OK"
            /\ e \notin DOMAIN AdminRouterDeleteHandler(e).events

\* C15: every id in a user's registeredEvents is the id of a stored event.
\* Fails: neither delete route writes the users.
C15_RegisteredEventsExist ==
    \A u \in Users : \A i \in 1 .. Len(users[u].registeredEvents) :
        users[u].registeredEvents[i] \in DOMAIN events

\* The event as handler outcome out leaves it.
EventAfter(out, e) == out.events[e]

\* C18: for every stored event isFull is len(registrations) >= capacity
\* and availableSpots is max(0, capacity - len(registrations)), so isFull
\* holds exactly when availableSpots is 0; and a successful cancel on a full
\* event leaves it not full with availableSpots 1, after which the register
\* of any other user who prefers the type and is not registered passes its
\* checks.  Fails: an event that holds more registrations than its capacity
\* is still full after a cancel.
C18_CancelOnFullEventFreesOneSpot ==
    \A e \in DOMAIN events :
        /\ IsFull(events[e]) <=> (Len(events[e].registrations) >= events[e].capacity)
        /\ AvailableSpots(events[e]) =
              (IF events[e].capacity - Len(events[e].registrations) > 0
               THEN events[e].capacity - Len(events[e].registrations) ELSE 0)
        /\ IsFull(events[e]) <=> (AvailableSpots(events[e]) = 0)
        /\ \A u \in Users :
              (IsFull(events[e]) /\ CancelHandler(u, e).status = "OK") =>
                  /\ ~IsFull(EventAfter(CancelHandler(u, e), e))
                  /\ AvailableSpots(EventAfter(CancelHandler(u, e), e)) = 1
                  /\ \A v \in Users \ {u} :
                        (/\ events[e].type \in users[v].preferences
                         /\ ~IsRegistered(events[e], v))
                        => RegisterCheck(EventAfter(CancelHandler(u, e), e),
                                         CancelHandler(u, e).users[v], v) = "OK"

\* Dates, times and clock readings the upcoming test is tried on: a date
\* may carry a time of day, and the clock may stand at an event's instant.
UpcomingDates == Dates \cup {15 * MinutesPerHour}

UpcomingNows ==
    ListNows \cup {d + t[1] * MinutesPerHour + t[2] : d \in Dates, t \in Times}

C17_AdminListingClassifiesOnce ==
    \A e \in DOMAIN events :
        /\ InList(ListAdminHandler("upcoming").events, e)
              <=> ~InList(ListAdminHandler("past").events, e)
        /\ InList(ListAdminHandler("upcoming").events, e) <=> IsUpcoming(events[e], now)

\* The stored events of the types asked for whose instant is after now.
UpcomingMatches(types) ==
    {e \in DOMAIN events :
        /\ types = {} \/ events[e].type \in types
        /\ IsUpcoming(events[e], now)}

\* C19: GET /api/events asked at clock reading now returns only events of
\* the types asked for whose instant is after now, in ascending order of
\* instant, and its total is the number of such events stored.  Fails: the
\* handler tests against a hard-coded instant, not the clock.
C19_UpcomingListingAtNow ==
    \A types \in SUBSET Types : \A page \in ListPages : \A limit \in ListLimits :
        /\ \A i \in 1 .. Len(ListUpcomingHandler(types, page, limit).events) :
              ListUpcomingHandler(types, page, limit).events[i] \in UpcomingMatches(types)
        /\ \A i \in 1 .. (Len(ListUpcomingHandler(types, page, limit).events) - 1) :
              EventInstant(events[ListUpcomingHandler(types, page, limit).events[i]])
                  <= EventInstant(events[ListUpcomingHandler(types, page, limit).events[i + 1]])
        /\ ListUpcomingHandler(types, page, limit).total = Cardinality(UpcomingMatches(types))

\* C20: GET /api/events/registered with a non-empty type filter returns
\* exactly the events the user is registered for whose type is in the
\* filter.  Fails: when none of the filter's types is in the user's
\* preferences the filter is dropped, and a type that is not preferred is
\* dropped from it.
C20_RegisteredListingHonoursFilter ==
    \A u \in Users : \A types \in (SUBSET Types) \ {{}} :
        {ListRegisteredHandler(u, types).events[i] :
            i \in 1 .. Len(ListRegisteredHandler(u, types).events)}
        = {e \in DOMAIN events : IsRegistered(events[e], u) /\ events[e].type \in types}

\* C27: every event that GET /api/events/registered returns for a user is
\* stored and holds a registration of that user, whatever the type filter.
\* Fails: after the admin router's cancel the id is still in the user's
\* registeredEvents, which is all the listing looks at.
C27_ListedAsRegisteredIsRegistered ==
    \A u \in Users : \A types \in SUBSET Types :
        \A i \in 1 .. Len(ListRegisteredHandler(u, types).events) :
            /\ ListRegisteredHandler(u, types).events[i] \in DOMAIN events
            /\ IsRegistered(events[ListRegisteredHandler(u, types).events[i]], u)

\* C28: no user's registeredEvents holds the same event id twice.  Fails:
\* the admin router's cancel leaves the id in the list and the next register
\* pushes it again.
C28_RegisteredEventsHasNoDuplicate ==
    \A u \in Users :
        \A i, j \in 1 .. Len(users[u].registeredEvents) :
            users[u].registeredEvents[i] = users[u].registeredEvents[j] => i = j

\* C26: register answers OK, NotFound, PreferenceMismatch, AlreadyRegistered
\* or EventFull and nothing else; for a stored event whose type the user
\* prefers, where the user is not registered and the event is not full, it
\* succeeds, appending the registration and the id, whether the event's
\* instant is before or after now.
C26_RegisterIgnoresTheClock ==
    \A u \in Users :
        /\ \A e \in EventIds :
              RegisterHandler(u, e).status \in
                  {"OK", "NotFound", "PreferenceMismatch", "AlreadyRegistered", "EventFull"}
        /\ \A e \in DOMAIN events :
              (/\ events[e].type \in users[u].preferences
               /\ ~IsRegistered(events[e], u)
               /\ ~IsFull(events[e]))
              => /\ RegisterHandler(u, e).status = "OK"
                 /\ RegisterHandler(u, e).events[e].registrations
                       = Append(events[e].registrations, Registration(u))
                 /\ RegisterHandler(u, e).users[u].registeredEvents
                       = Append(users[u].registeredEvents, e)

\* C26's case: an event whose instant is before every reading of the clock
\* holds a user's registration and id, and the register of another user
\* succeeds now.
C26_Witness ==
    \E e \in DOMAIN events : \E u, v \in Users :
        /\ EventInstant(events[e]) < 23 * MinutesPerHour
        /\ ~IsUpcoming(events[e], now)
        /\ IsRegistered(events[e], u)
        /\ InList(users[u].registeredEvents, e)
        /\ ~IsRegistered(events[e], v)
        /\ RegisterHandler(v, e).status = "OK"

\* C24: on each of the two update routes an update leaves the event's
\* registrations as stored, whatever fields the body carries.  Fails: both
\* routes Object.assign the body to the event, a registrations field
\* included.
C24_UpdateKeepsRegistrations ==
    \A e \in DOMAIN events :
        /\ \A body \in FullBodies :
              UpdateHandler(e, body).events[e].registrations = events[e].registrations
        /\ \A body \in PartialBodies :
              AdminRouterUpdateHandler(e, body).events[e].registrations
                  = events[e].registrations

\* A call that ends in a server error has written nothing.
ErrorWritesNothing(out) ==
    out.status = "ServerError" => (out.events = events /\ out.users = users)

\* C25: a register or a cancel on which the store fails at the second
\* write, the one to the user, leaves the event as stored too.  Fails: the
\* event has been saved before the user is written, and the catch block
\* only answers 500.
C25_FailedSecondWriteRollsBackFirst ==
    \A u \in Users : \A e \in EventIds :
        /\ ErrorWritesNothing(RegisterHandlerUserSaveFails(u, e))
        /\ ErrorWritesNothing(CancelHandlerUserUpdateFails(u, e))

\* C21: the dashboard's upcoming count is the number of stored events whose
\* instant is after now.  Fails: the handler counts the events whose date,
\* the day's midnight, is now or later, so an event later today is left out.
C21_DashboardCountsUpcoming ==
    DashboardHandler.upcomingEvents
        = Cardinality({e \in DOMAIN events : IsUpcoming(events[e], now)})

\* C22: the dashboard's grouping has, for every type that occurs among the
\* stored events, one group whose count is the number of events of that
\* type, and the counts add up to the number of events.  Fails: the handler
\* groups by eventType, which no event has, so all events are in one group
\* under null.
C22_DashboardGroupsByType ==
    DashboardHandler.eventsByType
        = [ty \in {events[e].type : e \in DOMAIN events} |->
              Cardinality({e \in DOMAIN events : events[e].type = ty})]

\* C23: with no event and no user stored the dashboard answers OK with 0
\* users, 0 events, 0 upcoming events and no group.
C23_EmptyDashboardIsAllZero ==
    (DOMAIN events = {} /\ DOMAIN users = {}) =>
        /\ DashboardHandler.status = "OK"
        /\ DashboardHandler.totalUsers = 0
        /\ DashboardHandler.totalEvents = 0
        /\ DashboardHandler.upcomingEvents = 0
        /\ DOMAIN DashboardHandler.eventsByType = {}

\* C23's case: the dashboard has answered from a store with no event and no
\* user.
C23_Witness ==
    /\ DOMAIN events = {}
    /\ DOMAIN users = {}
    /\ reply.route = "dashboard"
    /\ reply.status = "OK"
    /\ reply.totalEvents = 0

====
